---- MODULE Spec2Model ----
(***************************************************************************)
(* Telegram exec-approval coordination (TelegramExecApprovalHandler):      *)
(* approval requests from the gateway event stream are fanned out to the   *)
(* configured approvers, tracked in the pending registry with one expiry   *)
(* timer per successful send, and taken out of the registry by an upstream *)
(* resolved event, by a timer or by stop().                                *)
(*                                                                         *)
(* Strings that the code slices or searches (request ids, session keys,    *)
(* filter patterns) are sequences of one-character strings; other strings  *)
(* are TLA+ strings.  An optional value (null / undefined / value) is a    *)
(* sequence of length 0 or 1.                                              *)
(***************************************************************************)
EXTENDS Integers, Sequences, FiniteSets, TLC

VARIABLES
    config,            \* this.opts.config, fixed at construction
    started,           \* this.started
    gatewayClient,     \* this.gatewayClient !== null
    clients,           \* number of GatewayClient objects that were started and not stopped
    pending,           \* this.pending: request id -> PendingApproval
    requestCache,      \* this.requestCache: request id -> request
    shortIdMap,        \* this.shortIdMap: short id -> request id
    tasks,             \* handleApprovalRequested invocations awaiting api.sendMessage
    timers,            \* armed setTimeout timers of the event loop, each with the time it is due at
    nextTask,          \* number of the next handleApprovalRequested invocation
    nextMessageId,     \* message_id the Telegram API hands out next
    nextHandle,        \* NodeJS.Timeout handle setTimeout hands out next
    now,               \* Date.now()
    edits,             \* api.editMessageText calls issued so far, in order
    sent,              \* notifications api.sendMessage delivered (reply with a message_id)
    removed,           \* the entries taken out since the id's last requested event: the id, and by which handler
    resolvedDelivered, \* ids whose resolved event arrived since their last requested event, no timer of theirs having fired before
    last,              \* the handler call of the last step, if it made one, and what it found
    logSettings,       \* logger.ts: the logging configuration resolveSettings() reads
    cachedLogger,      \* logger.ts: loggingState.cachedLogger !== null
    alertConfig,       \* logger.ts: alertConfig
    currentLogFile,    \* logger.ts: currentLogFile, as the index of the file (0 is settings.file)
    currentFileSize,   \* logger.ts: currentFileSize
    currentRotationIndex, \* logger.ts: currentRotationIndex
    errorTimestamps,   \* logger.ts: errorTimestamps
    lastAlertSentAt,   \* logger.ts: lastAlertSentAt
    files,             \* the log directory: index of a log file -> its size in bytes
    clock,             \* Date.now() as the logger reads it, in milliseconds
    resets,            \* number of resetLogger calls so far
    errors,            \* the times of the errors trackErrorAndCheckAlert recorded so far
    alerts             \* the alerts trackErrorAndCheckAlert signalled so far: when, and after how many resets

\* the module state of logger.ts and what it has written and signalled
LoggerState ==
    <<logSettings, cachedLogger, alertConfig, currentLogFile, currentFileSize,
      currentRotationIndex, errorTimestamps, lastAlertSentAt, files, clock, resets,
      errors, alerts>>

vars == <<config, started, gatewayClient, clients, pending, requestCache, shortIdMap, tasks,
          timers, nextTask, nextMessageId, nextHandle, now, edits, sent, removed,
          resolvedDelivered, last, LoggerState>>

---------------------------------------------------------------------------
(* Bounds of the model *)

MaxRequests == 1

MaxSends == 2

MaxTime == 1

(* Program constants *)

ShortIdLen == 8

---------------------------------------------------------------------------
(* Values *)

None == <<>>

Some(v) == <<v>>

Min(a, b) == IF a < b THEN a ELSE b

Max(a, b) == IF a > b THEN a ELSE b

IdA == <<"a", "b", "c", "d", "e", "f", "g", "h", "-", "1">>

IdB == <<"a", "b", "c", "d", "e", "f", "g", "h", "-", "2">>

IdC == <<"x", "y", "z">>

Ids == {IdA, IdB, IdC}

Decisions == {"allow-once", "allow-always", "deny"}

SessTelegram == <<"a", ":", "t", "g">>

SessDiscord == <<"a", ":", "d", "c">>

Request(id, agentId, sessionKey, expiresAtMs) ==
    [id |-> id, agentId |-> agentId, sessionKey |-> sessionKey, expiresAtMs |-> expiresAtMs]

\* the exec.approval.requested payloads the gateway delivers: expiry times at
\* the start of the clock and at its end
Requests ==
    { Request(IdA, Some("main"), Some(SessTelegram), MaxTime),
      Request(IdB, Some("ops"), Some(SessDiscord), 0),
      Request(IdC, Some("main"), None, 0) }

Resolvers == [d \in Decisions |-> IF d = "deny" THEN Some("alice") ELSE None]

Resolutions ==
    { [id |-> i, decision |-> d, resolvedBy |-> Resolvers[d]] : i \in Ids, d \in Decisions }

Absent == [present |-> FALSE, list |-> <<>>]

List(l) == [present |-> TRUE, list |-> l]

Cfg(en, ap, af, sf) ==
    [enabled |-> en, approvers |-> ap, agentFilter |-> af, sessionFilter |-> sf]

Configs ==
    { Cfg(TRUE, List(<<[num |-> 101], [str |-> "202"]>>), Absent, Absent),
      Cfg(TRUE, List(<<[str |-> "202"]>>), List(<<"main">>), List(<<<<"(">>, <<"^", "a", ".", "*", "t">>>>)),
      Cfg(TRUE, List(<<>>), Absent, Absent),
      Cfg(FALSE, List(<<[num |-> 101]>>), Absent, Absent) }

---------------------------------------------------------------------------
(* Pure helpers *)

\* String(approver): an approver is a number or a string
String(a) == IF "num" \in DOMAIN a THEN ToString(a.num) ELSE a.str

\* id.slice(0, 8)
Slice(s, n) == SubSeq(s, 1, Min(Len(s), n))

\* s.includes(p)
Includes(s, p) ==
    \E i \in 0 .. (Len(s) - Len(p)) : SubSeq(s, i + 1, i + Len(p)) = p

\* new RegExp(p) throws: the patterns are over literals and ^ $ . * ( ; an
\* opening parenthesis is never closed, and * needs something to repeat
RegExpThrows(p) ==
    \/ \E i \in 1 .. Len(p) : p[i] = "("
    \/ \E i \in 1 .. Len(p) :
          /\ p[i] = "*"
          /\ (i = 1 \/ p[i - 1] \in {"*", "^", "$"})

RECURSIVE MatchHere(_, _, _)
\* the pattern p matches s from its position i on (i characters before it);
\* ^ and $ are assertions about the position wherever they stand
MatchHere(p, s, i) ==
    IF p = <<>> THEN TRUE
    ELSE IF Len(p) >= 2 /\ p[2] = "*"
    THEN \E k \in 0 .. (Len(s) - i) :
            /\ \A j \in (i + 1) .. (i + k) : (p[1] = "." \/ s[j] = p[1])
            /\ MatchHere(SubSeq(p, 3, Len(p)), s, i + k)
    ELSE IF p[1] = "^" THEN i = 0 /\ MatchHere(Tail(p), s, i)
    ELSE IF p[1] = "$" THEN i = Len(s) /\ MatchHere(Tail(p), s, i)
    ELSE IF i < Len(s) /\ (p[1] = "." \/ p[1] = s[i + 1])
    THEN MatchHere(Tail(p), s, i + 1)
    ELSE FALSE

\* new RegExp(p).test(s) for a pattern that compiles: a match from some position
RegExpTest(p, s) == \E i \in 0 .. Len(s) : MatchHere(p, s, i)

\* a variant of the callback that tests the regular expression only
SessionPatternMatchesRegExpOnly(p, session) ==
    IF RegExpThrows(p) THEN FALSE ELSE RegExpTest(p, session)

\* the callback of config.sessionFilter.some(...)
SessionPatternMatches(p, session) ==
    IF RegExpThrows(p)
    THEN Includes(session, p)
    ELSE Includes(session, p) \/ RegExpTest(p, session)

\* an optional string that JavaScript treats as true (not null, undefined or "")
Truthy(opt) == opt # None /\ opt[1] # ""

\* the same for a string kept as a sequence of characters
TruthySeq(opt) == opt # None /\ opt[1] # <<>>

NonEmpty(optList) == optList.present /\ Len(optList.list) > 0

\* the agent dimension of shouldHandle: lines 204-207
AgentFilterRejects(cfg, request) ==
    /\ NonEmpty(cfg.agentFilter)
    /\ \/ ~Truthy(request.agentId)
       \/ ~\E i \in 1 .. Len(cfg.agentFilter.list) :
              cfg.agentFilter.list[i] = request.agentId[1]

\* the session dimension of shouldHandle: lines 210-221
SessionFilterRejects(cfg, request) ==
    /\ NonEmpty(cfg.sessionFilter)
    /\ \/ ~TruthySeq(request.sessionKey)
       \/ ~\E i \in 1 .. Len(cfg.sessionFilter.list) :
              SessionPatternMatches(cfg.sessionFilter.list[i], request.sessionKey[1])

\* a variant that does not look at config.enabled
shouldHandleIgnoresEnabled(cfg, request) ==
    IF ~NonEmpty(cfg.approvers) THEN FALSE
    ELSE IF AgentFilterRejects(cfg, request) THEN FALSE
    ELSE IF SessionFilterRejects(cfg, request) THEN FALSE
    ELSE TRUE

\* a variant that applies the agent filter only to a request that names an agent
shouldHandleMissingAgentPasses(cfg, request) ==
    IF ~cfg.enabled THEN FALSE
    ELSE IF ~NonEmpty(cfg.approvers) THEN FALSE
    ELSE IF Truthy(request.agentId) /\ AgentFilterRejects(cfg, request) THEN FALSE
    ELSE IF SessionFilterRejects(cfg, request) THEN FALSE
    ELSE TRUE

\* a variant that accepts a request when either configured filter accepts it
shouldHandleEitherFilter(cfg, request) ==
    IF ~cfg.enabled THEN FALSE
    ELSE IF ~NonEmpty(cfg.approvers) THEN FALSE
    ELSE IF NonEmpty(cfg.agentFilter) /\ NonEmpty(cfg.sessionFilter)
    THEN ~AgentFilterRejects(cfg, request) \/ ~SessionFilterRejects(cfg, request)
    ELSE ~AgentFilterRejects(cfg, request) /\ ~SessionFilterRejects(cfg, request)

\* a variant that applies a filter whenever the list is present, also when
\* it has no entries
shouldHandlePresentFilterApplies(cfg, request) ==
    IF ~cfg.enabled THEN FALSE
    ELSE IF ~NonEmpty(cfg.approvers) THEN FALSE
    ELSE IF /\ cfg.agentFilter.present
            /\ \/ ~Truthy(request.agentId)
               \/ ~\E i \in 1 .. Len(cfg.agentFilter.list) :
                      cfg.agentFilter.list[i] = request.agentId[1]
    THEN FALSE
    ELSE IF /\ cfg.sessionFilter.present
            /\ \/ ~TruthySeq(request.sessionKey)
               \/ ~\E i \in 1 .. Len(cfg.sessionFilter.list) :
                      SessionPatternMatches(cfg.sessionFilter.list[i], request.sessionKey[1])
    THEN FALSE
    ELSE TRUE

shouldHandle(cfg, request) ==
    IF ~cfg.enabled THEN FALSE
    ELSE IF ~NonEmpty(cfg.approvers) THEN FALSE
    ELSE IF AgentFilterRejects(cfg, request) THEN FALSE
    ELSE IF SessionFilterRejects(cfg, request) THEN FALSE
    ELSE TRUE

\* this.opts.config.approvers ?? []
Approvers == IF config.approvers.present THEN config.approvers.list ELSE <<>>

\* Map operations: set, delete
MapSet(m, k, v) == [x \in (DOMAIN m) \cup {k} |-> IF x = k THEN v ELSE m[x]]

MapDelete(m, k) == [x \in (DOMAIN m) \ {k} |-> m[x]]

EmptyMap == <<>>

formatResolvedMessage(request, decision, resolvedBy) ==
    [ title |-> IF decision = "allow-once" THEN "Allowed (once)"
                ELSE IF decision = "allow-always" THEN "Allowed (always)"
                ELSE "Denied",
      resolvedBy |-> IF Truthy(resolvedBy) THEN resolvedBy ELSE None,
      id |-> Slice(request.id, ShortIdLen) ]

formatExpiredMessage(request) ==
    [ title |-> "Expired", resolvedBy |-> None, id |-> Slice(request.id, ShortIdLen) ]

\* the api.editMessageText call of updateMessage: the reply markup is an empty
\* inline keyboard; a failure of the call is caught and logged
updateMessage(chatId, messageId, text) ==
    edits' = Append(edits, [chatId |-> chatId, messageId |-> messageId, text |-> text,
                            inline_keyboard |-> <<>>])

\* what the last step's handler call (if it was one) was given and found:
\* present is shouldHandle's answer, or whether the pending entry was there
Call(op, id, present) == [op |-> op, id |-> id, present |-> present]

NoCall == Call("", None, FALSE)

---------------------------------------------------------------------------
(* Initial state: a constructed handler, not started *)

\* logger.ts: the defaults of the size-based rotation
DEFAULT_MAX_FILE_SIZE == 104857600

DEFAULT_MAX_FILES_PER_DAY == 5

\* resolveSettings() with no logging configuration
DefaultLogSettings ==
    [maxFileSize |-> DEFAULT_MAX_FILE_SIZE, maxFilesPerDay |-> DEFAULT_MAX_FILES_PER_DAY,
     alertOnErrorSpike |-> None]

\* Date.now() when the module is loaded: later than every cooldown after 0
StartTime == 5000

\* logger.ts when the module is loaded, over a log directory and a configuration
LoggerLoaded(settings, directory) ==
    /\ logSettings = settings
    /\ cachedLogger = FALSE
    /\ alertConfig = None
    /\ currentLogFile = None
    /\ currentFileSize = 0
    /\ currentRotationIndex = 0
    /\ errorTimestamps = <<>>
    /\ lastAlertSentAt = 0
    /\ files = directory
    /\ clock = StartTime
    /\ resets = 0
    /\ errors = <<>>
    /\ alerts = <<>>

Init ==
    /\ config \in Configs
    /\ started = FALSE
    /\ gatewayClient = FALSE
    /\ clients = 0
    /\ pending = EmptyMap
    /\ requestCache = EmptyMap
    /\ shortIdMap = EmptyMap
    /\ tasks = {}
    /\ timers = {}
    /\ nextTask = 1
    /\ nextMessageId = 1
    /\ nextHandle = 1
    /\ now = 0
    /\ edits = <<>>
    /\ sent = {}
    /\ removed = {}
    /\ resolvedDelivered = {}
    /\ last = NoCall
    /\ LoggerLoaded(DefaultLogSettings, EmptyMap)

---------------------------------------------------------------------------
(* start() and stop() *)

\* start() without the test of this.started: a second call constructs and
\* starts another GatewayClient over the reference to the first
StartUnguarded ==
    /\ started' = TRUE
    /\ IF config.enabled /\ NonEmpty(config.approvers)
       THEN gatewayClient' = TRUE /\ clients' = clients + 1
       ELSE UNCHANGED <<gatewayClient, clients>>
    /\ last' = NoCall
    /\ UNCHANGED <<LoggerState, config, pending, requestCache, shortIdMap, tasks, timers, nextTask,
                   nextMessageId, nextHandle, now, edits, sent, removed, resolvedDelivered>>

Start ==
    /\ IF started
       THEN UNCHANGED <<started, gatewayClient, clients>>
       ELSE /\ started' = TRUE
            /\ IF config.enabled /\ NonEmpty(config.approvers)
               THEN gatewayClient' = TRUE /\ clients' = clients + 1
               ELSE UNCHANGED <<gatewayClient, clients>>
    /\ last' = NoCall
    /\ UNCHANGED <<LoggerState, config, pending, requestCache, shortIdMap, tasks, timers, nextTask,
                   nextMessageId, nextHandle, now, edits, sent, removed, resolvedDelivered>>

\* the timers left armed by clearTimeout(pending.timeoutId) for every entry of this.pending
TimersAfterStop ==
    { t \in timers : \A id \in DOMAIN pending : pending[id].timeoutId # t.handle }

Stop ==
    /\ IF ~started
       THEN UNCHANGED <<started, gatewayClient, clients, timers, pending, requestCache, shortIdMap>>
       ELSE /\ started' = FALSE
            /\ timers' = TimersAfterStop
            /\ pending' = EmptyMap
            /\ requestCache' = EmptyMap
            /\ shortIdMap' = EmptyMap
            /\ clients' = IF gatewayClient THEN clients - 1 ELSE clients
            /\ gatewayClient' = FALSE
    /\ last' = NoCall
    /\ UNCHANGED <<LoggerState, config, tasks, nextTask, nextMessageId, nextHandle, now, edits, sent,
                   removed, resolvedDelivered>>

---------------------------------------------------------------------------
(* handleApprovalRequested: the synchronous part, then one step per awaited
   api.sendMessage *)

\* handleApprovalRequested with the shouldHandle test placed after the
\* request is cached and indexed
handleApprovalRequestedCachesFirst(request) ==
    IF ~shouldHandle(config, request)
    THEN /\ requestCache' = MapSet(requestCache, request.id, request)
         /\ shortIdMap' = MapSet(shortIdMap, Slice(request.id, ShortIdLen), request.id)
         /\ last' = Call("requested", request.id, FALSE)
         /\ UNCHANGED <<tasks, nextTask, removed, resolvedDelivered>>
    ELSE /\ requestCache' = MapSet(requestCache, request.id, request)
         /\ shortIdMap' = MapSet(shortIdMap, Slice(request.id, ShortIdLen), request.id)
         /\ IF Len(Approvers) >= 1
            THEN tasks' = tasks \cup {[tid |-> nextTask, request |-> request, idx |-> 1, armed |-> 0]}
            ELSE tasks' = tasks
         /\ nextTask' = nextTask + 1
         /\ removed' = {r \in removed : r.id # request.id}
         /\ resolvedDelivered' = resolvedDelivered \ {request.id}
         /\ last' = Call("requested", request.id, TRUE)

\* up to the first await: filter, cache the request, index its short id and
\* call api.sendMessage for the first approver
handleApprovalRequested(request) ==
    IF ~shouldHandle(config, request)
    THEN /\ last' = Call("requested", request.id, FALSE)
         /\ UNCHANGED <<requestCache, shortIdMap, tasks, nextTask, removed, resolvedDelivered>>
    ELSE /\ requestCache' = MapSet(requestCache, request.id, request)
         /\ shortIdMap' = MapSet(shortIdMap, Slice(request.id, ShortIdLen), request.id)
         /\ IF Len(Approvers) >= 1
            THEN tasks' = tasks \cup {[tid |-> nextTask, request |-> request, idx |-> 1, armed |-> 0]}
            ELSE tasks' = tasks
         /\ nextTask' = nextTask + 1
         /\ removed' = {r \in removed : r.id # request.id}
         /\ resolvedDelivered' = resolvedDelivered \ {request.id}
         /\ last' = Call("requested", request.id, TRUE)

\* the loop goes on to the next approver, or the handler returns
NextApprover(task, armed) ==
    IF task.idx < Len(Approvers)
    THEN (tasks \ {task}) \cup {[task EXCEPT !.idx = task.idx + 1, !.armed = armed]}
    ELSE tasks \ {task}

\* api.sendMessage resolves with a message that has a message_id: arm the
\* timer and set the pending entry
sendMessageOk(task) ==
    LET request == task.request
        chatId == String(Approvers[task.idx])
        timeoutMs == Max(0, request.expiresAtMs - now)
    IN  /\ timers' = timers \cup {[handle |-> nextHandle, id |-> request.id,
                                    at |-> now + timeoutMs]}
        /\ nextHandle' = nextHandle + 1
        /\ pending' = MapSet(pending, request.id,
                             [telegramMessageId |-> nextMessageId,
                              telegramChatId |-> chatId,
                              timeoutId |-> nextHandle])
        /\ nextMessageId' = nextMessageId + 1
        /\ sent' = sent \cup {[id |-> request.id, chatId |-> chatId, messageId |-> nextMessageId]}
        /\ tasks' = NextApprover(task, task.armed + 1)
        /\ last' = NoCall
        /\ UNCHANGED <<LoggerState, config, started, gatewayClient, clients, requestCache, shortIdMap, nextTask,
                       now, edits, removed, resolvedDelivered>>

\* api.sendMessage resolves without a message_id: logError, continue
sendMessageNoId(task) ==
    /\ tasks' = NextApprover(task, task.armed)
    /\ last' = NoCall
    /\ UNCHANGED <<LoggerState, config, started, gatewayClient, clients, pending, requestCache, shortIdMap,
                   timers, nextTask, nextMessageId, nextHandle, now, edits, sent, removed,
                   resolvedDelivered>>

\* sendMessageThrows with the try/catch around the whole loop instead of the
\* loop body: the first rejection ends the fan-out
sendMessageThrowsEndsLoop(task) ==
    /\ tasks' = tasks \ {task}
    /\ last' = NoCall
    /\ UNCHANGED <<LoggerState, config, started, gatewayClient, clients, pending, requestCache, shortIdMap,
                   timers, nextTask, nextMessageId, nextHandle, now, edits, sent, removed,
                   resolvedDelivered>>

\* api.sendMessage rejects: the catch of the loop body logs the error
sendMessageThrows(task) ==
    /\ tasks' = NextApprover(task, task.armed)
    /\ last' = NoCall
    /\ UNCHANGED <<LoggerState, config, started, gatewayClient, clients, pending, requestCache, shortIdMap,
                   timers, nextTask, nextMessageId, nextHandle, now, edits, sent, removed,
                   resolvedDelivered>>

---------------------------------------------------------------------------
(* handleApprovalResolved, handleApprovalTimeout *)

\* handleApprovalResolved with the early return placed after the cache
\* cleanup instead of before it
handleApprovalResolvedLateReturn(resolved) ==
    IF resolved.id \notin DOMAIN pending
    THEN /\ requestCache' = MapDelete(requestCache, resolved.id)
         /\ shortIdMap' = MapDelete(shortIdMap, Slice(resolved.id, ShortIdLen))
         /\ last' = Call("resolved", resolved.id, FALSE)
         /\ UNCHANGED <<pending, timers, edits, removed>>
    ELSE LET entry == pending[resolved.id]
         IN  /\ timers' = {t \in timers : t.handle # entry.timeoutId}
             /\ pending' = MapDelete(pending, resolved.id)
             /\ requestCache' = MapDelete(requestCache, resolved.id)
             /\ shortIdMap' = MapDelete(shortIdMap, Slice(resolved.id, ShortIdLen))
             /\ removed' = removed \cup {[id |-> resolved.id, by |-> "resolved"]}
             /\ last' = Call("resolved", resolved.id, TRUE)
             /\ IF resolved.id \notin DOMAIN requestCache
                THEN UNCHANGED edits
                ELSE updateMessage(entry.telegramChatId, entry.telegramMessageId,
                                   formatResolvedMessage(requestCache[resolved.id],
                                                         resolved.decision,
                                                         resolved.resolvedBy))

handleApprovalResolved(resolved) ==
    IF resolved.id \notin DOMAIN pending
    THEN /\ last' = Call("resolved", resolved.id, FALSE)
         /\ UNCHANGED <<pending, requestCache, shortIdMap, timers, edits, removed>>
    ELSE LET entry == pending[resolved.id]
         IN  /\ timers' = {t \in timers : t.handle # entry.timeoutId}
             /\ pending' = MapDelete(pending, resolved.id)
             /\ requestCache' = MapDelete(requestCache, resolved.id)
             /\ shortIdMap' = MapDelete(shortIdMap, Slice(resolved.id, ShortIdLen))
             /\ removed' = removed \cup {[id |-> resolved.id, by |-> "resolved"]}
             /\ last' = Call("resolved", resolved.id, TRUE)
             /\ IF resolved.id \notin DOMAIN requestCache
                THEN UNCHANGED edits
                ELSE updateMessage(entry.telegramChatId, entry.telegramMessageId,
                                   formatResolvedMessage(requestCache[resolved.id],
                                                         resolved.decision,
                                                         resolved.resolvedBy))

handleApprovalTimeout(approvalId) ==
    IF approvalId \notin DOMAIN pending
    THEN /\ last' = Call("timeout", approvalId, FALSE)
         /\ UNCHANGED <<pending, requestCache, shortIdMap, edits, removed>>
    ELSE LET entry == pending[approvalId]
         IN  /\ pending' = MapDelete(pending, approvalId)
             /\ requestCache' = MapDelete(requestCache, approvalId)
             /\ shortIdMap' = MapDelete(shortIdMap, Slice(approvalId, ShortIdLen))
             /\ removed' = removed \cup {[id |-> approvalId, by |-> "timeout"]}
             /\ last' = Call("timeout", approvalId, TRUE)
             /\ IF approvalId \notin DOMAIN requestCache
                THEN UNCHANGED edits
                ELSE updateMessage(entry.telegramChatId, entry.telegramMessageId,
                                   formatExpiredMessage(requestCache[approvalId]))

---------------------------------------------------------------------------
(* resolveApproval, handleCallbackQuery, getFullApprovalId.  The only await
   is the one on gatewayClient.request, and nothing of the handler is read or
   written after it, so a call is one step whose outcome depends on the reply
   of the gateway. *)

\* what a call did: the exec.approval.resolve request it sent to the gateway,
\* if any, and the boolean it returned
Outcome(request, ret) == [request |-> request, ret |-> ret]

\* the call of the step: handleCallbackQuery or resolveApproval, its
\* arguments, the full id the short id mapped to, and the outcome
CallbackCall(op, shortId, userId, fullId, outcome) ==
    [op |-> op, id |-> IF fullId = None THEN None ELSE fullId[1], present |-> fullId # None,
     shortId |-> shortId, userId |-> userId,
     request |-> outcome.request, ret |-> outcome.ret]

\* the replies of the gateway to an exec.approval.resolve request: the
\* promise resolves, or rejects (request refused, connection lost)
Replies == {"ok", "error"}

\* the user ids a callback query carries: undefined, empty, the two approvers
\* of the configurations, and a stranger
UserIds == {None, Some(""), Some("101"), Some("202"), Some("999")}

\* the short ids a callback query carries
ShortIds == { Slice(id, ShortIdLen) : id \in Ids }

\* resolveApproval that reports success once the request is sent, whatever
\* the gateway replies
resolveApprovalIgnoresReply(approvalId, decision, reply) ==
    IF ~gatewayClient
    THEN Outcome(None, FALSE)
    ELSE Outcome(Some([id |-> approvalId, decision |-> decision]), TRUE)

resolveApproval(approvalId, decision, reply) ==
    IF ~gatewayClient
    THEN Outcome(None, FALSE)
    ELSE Outcome(Some([id |-> approvalId, decision |-> decision]), reply = "ok")

\* approvers.some((a) => String(a) === userId)
IsApprover(userId) == \E i \in DOMAIN Approvers : String(Approvers[i]) = userId

getFullApprovalId(shortId) ==
    IF shortId \in DOMAIN shortIdMap THEN Some(shortIdMap[shortId]) ELSE None

\* handleCallbackQuery without the membership test on the approvers
handleCallbackQueryAnyUser(shortId, action, userId, reply) ==
    LET fullId == getFullApprovalId(shortId)
        outcome == IF fullId = None
                   THEN Outcome(None, FALSE)
                   ELSE resolveApproval(fullId[1], action, reply)
    IN  /\ last' = CallbackCall("callback", shortId, userId, fullId, outcome)
        /\ UNCHANGED <<pending, requestCache, shortIdMap, timers>>

\* handleCallbackQuery that commits the decision locally once the gateway
\* has acknowledged it, instead of waiting for the resolved event
handleCallbackQueryCommitsLocally(shortId, action, userId, reply) ==
    LET fullId == getFullApprovalId(shortId)
        outcome == IF fullId = None
                   THEN Outcome(None, FALSE)
                   ELSE IF Truthy(userId) /\ ~IsApprover(userId[1])
                   THEN Outcome(None, FALSE)
                   ELSE resolveApproval(fullId[1], action, reply)
    IN  /\ last' = CallbackCall("callback", shortId, userId, fullId, outcome)
        /\ IF outcome.ret
           THEN /\ requestCache' = MapDelete(requestCache, fullId[1])
                /\ shortIdMap' = MapDelete(shortIdMap, shortId)
                /\ pending' = MapDelete(pending, fullId[1])
                /\ UNCHANGED timers
           ELSE UNCHANGED <<pending, requestCache, shortIdMap, timers>>

handleCallbackQuery(shortId, action, userId, reply) ==
    LET fullId == getFullApprovalId(shortId)
        outcome == IF fullId = None
                   THEN Outcome(None, FALSE)
                   ELSE IF Truthy(userId) /\ ~IsApprover(userId[1])
                   THEN Outcome(None, FALSE)
                   ELSE resolveApproval(fullId[1], action, reply)
    IN  /\ last' = CallbackCall("callback", shortId, userId, fullId, outcome)
        /\ UNCHANGED <<pending, requestCache, shortIdMap, timers>>

---------------------------------------------------------------------------
(* The event sources: the gateway client's onEvent, the Telegram API's
   replies, the event loop's timers and the clock.  The gateway client
   delivers events only while it exists, between start() and stop(); an
   awaited api.sendMessage and an armed timer outlive stop(). *)

\* handleGatewayEvent with an exec.approval.requested event
GatewayRequested ==
    \E request \in Requests :
        /\ gatewayClient
        /\ nextTask <= MaxRequests
        /\ handleApprovalRequested(request)
        /\ UNCHANGED <<LoggerState, config, started, gatewayClient, clients, pending, timers, nextMessageId,
                       nextHandle, now, edits, sent>>

\* the resolved events that lead to different states: handleApprovalResolved
\* returns before it reads the decision when the id has no pending entry, so
\* one decision stands for all three there
DistinctResolutions ==
    { r \in Resolutions : r.id \in DOMAIN pending \/ r.decision = "deny" }

\* handleGatewayEvent with an exec.approval.resolved event
GatewayResolved ==
    \E resolved \in DistinctResolutions :
        /\ gatewayClient
        /\ handleApprovalResolved(resolved)
        /\ resolvedDelivered' =
              IF resolved.id \in DOMAIN requestCache
              THEN resolvedDelivered \cup {resolved.id}
              ELSE resolvedDelivered
        /\ UNCHANGED <<LoggerState, config, started, gatewayClient, clients, tasks, nextTask, nextMessageId,
                       nextHandle, now, sent>>

SendOk ==
    \E task \in tasks :
        /\ nextMessageId <= MaxSends
        /\ sendMessageOk(task)

SendNoId == \E task \in tasks : sendMessageNoId(task)

SendThrows == \E task \in tasks : sendMessageThrows(task)

\* a timer whose delay has elapsed runs its callback
TimerFires ==
    \E t \in timers :
        /\ now >= t.at
        /\ timers' = timers \ {t}
        /\ handleApprovalTimeout(t.id)
        /\ UNCHANGED <<LoggerState, config, started, gatewayClient, clients, tasks, nextTask, nextMessageId,
                       nextHandle, now, sent, resolvedDelivered>>

Tick ==
    /\ now < MaxTime
    /\ now' = now + 1
    /\ last' = NoCall
    /\ UNCHANGED <<LoggerState, config, started, gatewayClient, clients, pending, requestCache, shortIdMap,
                   tasks, timers, nextTask, nextMessageId, nextHandle, edits, sent,
                   removed, resolvedDelivered>>

Next ==
    \/ Start
    \/ Stop
    \/ GatewayRequested
    \/ GatewayResolved
    \/ SendOk
    \/ SendNoId
    \/ SendThrows
    \/ TimerFires
    \/ Tick

Spec == Init /\ [][Next]_vars

\* a callback query of an inline button, routed here by the bot handlers
CallbackQuery ==
    \E shortId \in ShortIds, action \in Decisions, userId \in UserIds, reply \in Replies :
        /\ handleCallbackQuery(shortId, action, userId, reply)
        /\ UNCHANGED <<LoggerState, config, started, gatewayClient, clients, tasks, nextTask, nextMessageId,
                       nextHandle, now, edits, sent, removed, resolvedDelivered>>

\* a direct call of the public resolveApproval
ResolveApproval ==
    \E approvalId \in Ids, decision \in Decisions, reply \in Replies :
        /\ last' = CallbackCall("resolve", None, None, Some(approvalId),
                                resolveApproval(approvalId, decision, reply))
        /\ UNCHANGED <<LoggerState, config, started, gatewayClient, clients, pending, requestCache, shortIdMap,
                       tasks, timers, nextTask, nextMessageId, nextHandle, now, edits,
                       sent, removed, resolvedDelivered>>

\* the handler with its event sources and the callers of its public methods
NextCallback ==
    \/ Next
    \/ CallbackQuery
    \/ ResolveApproval

SpecCallback == Init /\ [][NextCallback]_vars

---------------------------------------------------------------------------
(* Requests whose ids share their first 8 characters *)

IdD == <<"a", "b", "c", "d", "e", "f", "g", "h", "-", "3">>

\* exec.approval.requested payloads with the same short id
SamePrefixRequests ==
    { Request(IdA, Some("main"), Some(SessTelegram), 0),
      Request(IdB, Some("main"), Some(SessTelegram), 0),
      Request(IdD, Some("main"), Some(SessTelegram), 0) }

\* handleGatewayEvent with an exec.approval.requested event of one of them
GatewayRequestedSamePrefix ==
    \E request \in SamePrefixRequests :
        /\ gatewayClient
        /\ nextTask <= MaxRequests + 2
        /\ handleApprovalRequested(request)
        /\ UNCHANGED <<LoggerState, config, started, gatewayClient, clients, pending, timers, nextMessageId,
                       nextHandle, now, edits, sent>>

\* an approver presses the allow-once button of a notification of one of them
CallbackQuerySamePrefix ==
    /\ handleCallbackQuery(Slice(IdA, ShortIdLen), "allow-once", Some("202"), "ok")
    /\ UNCHANGED <<LoggerState, config, started, gatewayClient, clients, tasks, nextTask, nextMessageId,
                   nextHandle, now, edits, sent, removed, resolvedDelivered>>

\* the part of the handler's environment in which short ids collide: the
\* gateway's events, notifications that are delivered, timers and callbacks
NextSamePrefix ==
    \/ Start
    \/ GatewayRequestedSamePrefix
    \/ GatewayResolved
    \/ SendOk
    \/ TimerFires
    \/ CallbackQuerySamePrefix

SpecSamePrefix == Init /\ [][NextSamePrefix]_vars

---------------------------------------------------------------------------
(* Properties *)

\* the api.editMessageText calls the step issues
NewEdits == { edits'[i] : i \in (Len(edits) + 1) .. Len(edits') }

\* the step calls handleApprovalResolved or handleApprovalTimeout for id
TerminalCall(id) == last'.op \in {"resolved", "timeout"} /\ last'.id = id

\* the request a delivered notification belongs to
RequestOfMessage(messageId) == (CHOOSE m \in sent : m.messageId = messageId).id

\* C1: of a resolved event and a timer firing for the same request, one removes
\* the entry and the other is a no-op: once one of the two handlers has taken
\* the entry of an id out of the registry, a later call of the other handler
\* for that id finds no entry, removes nothing and issues no edit.
C1_OneRemovesOtherNoOp ==
    [][\A r \in removed :
          (TerminalCall(r.id) /\ last'.op # r.by) =>
              (~last'.present /\ edits' = edits /\ pending' = pending)]_vars

\* C2: a request id leaves the pending registry once: an id whose entry was
\* removed by a resolved event or a timer has no pending entry again until a
\* new requested event for it arrives.
C2_LeavesRegistryOnce == \A r \in removed : r.id \notin DOMAIN pending

\* C3: an upstream resolution is never lost: once the resolved event of an
\* accepted request has been delivered (also while its notifications are being
\* sent), no message of that request is edited to the Expired state.
C3_ResolutionNeverLost ==
    [][\A e \in NewEdits :
          e.text.title = "Expired" => RequestOfMessage(e.messageId) \notin resolvedDelivered]_vars

\* C4: when a resolved event or a timer removes a pending entry, an edit that
\* removes the buttons is issued for every recipient a notification of that
\* request was delivered to (stated for a request that is still cached, so
\* that the handler reaches updateMessage).
C4_EveryRecipientEdited ==
    [][\A id \in DOMAIN requestCache :
          (TerminalCall(id) /\ last'.present) =>
              \A m \in sent :
                  m.id = id =>
                      \E e \in NewEdits :
                          /\ e.chatId = m.chatId
                          /\ e.messageId = m.messageId
                          /\ e.inline_keyboard = <<>>
                          /\ (e.text.title = "Expired") <=> (last'.op = "timeout")]_vars

\* C5: every armed timer belongs to a request id that has a pending entry.
C5_TimersBelongToPending == \A t \in timers : t.id \in DOMAIN pending

\* C6: at most one timer is armed per request id.
C6_OneTimerPerRequest == \A t1, t2 \in timers : t1.id = t2.id => t1 = t2

\* C7: while the handler is stopped no timer is armed and pending, requestCache
\* and shortIdMap are empty.
C7_StoppedIsEmpty ==
    ~started =>
        /\ timers = {}
        /\ pending = EmptyMap
        /\ requestCache = EmptyMap
        /\ shortIdMap = EmptyMap

\* C8: a resolved event or a timer firing for an id without a pending entry
\* changes nothing: no edit is issued, pending, requestCache and shortIdMap stay
\* as they are and no timer is armed or cancelled (the timer that fired is
\* spent).
C8_AbsentIsNoOp ==
    [][\A id \in Ids :
          (TerminalCall(id) /\ id \notin DOMAIN pending) =>
              /\ pending' = pending
              /\ requestCache' = requestCache
              /\ shortIdMap' = shortIdMap
              /\ edits' = edits
              /\ IF last'.op = "resolved"
                 THEN timers' = timers
                 ELSE \E t \in timers : t.id = id /\ timers' = timers \ {t}]_vars

\* a resolved event arrives again for a request it has already taken out
C8_Witness ==
    /\ last.op = "resolved"
    /\ ~last.present
    /\ [id |-> last.id, by |-> "resolved"] \in removed

\* C9: a send that fails (no message_id, or an error) leaves the admission of
\* the request as it is and the fan-out goes on to the next approver.
C9_SendFailureIsolated ==
    [][\A task \in tasks :
          (task \notin tasks' /\ nextMessageId' = nextMessageId) =>
              /\ requestCache' = requestCache
              /\ shortIdMap' = shortIdMap
              /\ pending' = pending
              /\ timers' = timers
              /\ task.idx < Len(Approvers) =>
                     [task EXCEPT !.idx = task.idx + 1] \in tasks']_vars

\* the send to the first approver failed, the request is still admitted and
\* the send to the second approver is under way
C9_Witness ==
    \E task \in tasks :
        /\ task.idx = 2
        /\ task.armed = 0
        /\ task.request.id \in DOMAIN requestCache
        /\ Slice(task.request.id, ShortIdLen) \in DOMAIN shortIdMap

\* C10: when the fan-out of an accepted request ends, a pending entry has been
\* set and a timer armed for it, whether or not a send succeeded; every timer
\* is armed with the delay max(0, expiresAtMs - now).
C10_TimerArmedOnAttempt ==
    [][/\ \A task \in tasks :
              (task \notin tasks' /\ task.idx = Len(Approvers)) =>
                  (task.armed >= 1 \/ task.request.id \in DOMAIN pending' \ DOMAIN pending
                                   \/ nextHandle' > nextHandle)
       /\ \A t \in timers' \ timers :
              \E task \in tasks :
                  /\ task.request.id = t.id
                  /\ t.at - now = Max(0, task.request.expiresAtMs - now)]_vars


\* C15: a requested event that shouldHandle rejects (feature disabled, no
\* approvers, or filtered out by agentFilter / sessionFilter) starts no send,
\* arms no timer and leaves pending, requestCache and shortIdMap as they are.
C15_FilteredIsNoOp ==
    [][/\ (last'.op = "requested" /\ ~last'.present) =>
              /\ tasks' = tasks
              /\ sent' = sent
              /\ timers' = timers
              /\ pending' = pending
              /\ requestCache' = requestCache
              /\ shortIdMap' = shortIdMap
       /\ (~config.enabled \/ ~NonEmpty(config.approvers)) =>
              /\ tasks' = {}
              /\ sent' = {}
              /\ timers' = {}
              /\ pending' = EmptyMap
              /\ requestCache' = EmptyMap
              /\ shortIdMap' = EmptyMap]_vars

\* a request that the filters of the configuration reject has been delivered
C15_Witness ==
    /\ last.op = "requested"
    /\ ~last.present
    /\ ~shouldHandle(config, CHOOSE r \in Requests : r.id = last.id)
    /\ last.id \notin DOMAIN requestCache

---------------------------------------------------------------------------
(* Properties of handleCallbackQuery and resolveApproval *)

\* the step is a handleCallbackQuery call
IsCallback == last'.op = "callback"

\* the ids whose request has been resolved upstream or has expired since
\* their last requested event
Settled == resolvedDelivered \cup { r.id : r \in removed }

\* C11: a callback query from a user id that is not among the approvers, for a
\* short id that maps to a pending request, returns false and sends no
\* exec.approval.resolve request.
C11_UnauthorizedIgnored ==
    [][(/\ IsCallback
        /\ last'.present
        /\ last'.id \in DOMAIN pending
        /\ Truthy(last'.userId)
        /\ ~IsApprover(last'.userId[1])) =>
           (~last'.ret /\ last'.request = None)]_vars

\* a stranger pressed a button of a pending request
C11_Witness ==
    /\ last.op = "callback"
    /\ last.present
    /\ last.id \in DOMAIN pending
    /\ last.userId = Some("999")
    /\ ~last.ret
    /\ last.request = None

\* C12: every exec.approval.resolve request that handleCallbackQuery sends
\* comes from a call whose user id was checked and is one of the approvers; a
\* call without a user id (undefined or empty) sends nothing.
C12_OnlyApproversResolve ==
    [][(IsCallback /\ last'.request # None) =>
           (Truthy(last'.userId) /\ IsApprover(last'.userId[1]))]_vars

\* C13: a callback query whose short id is not in shortIdMap returns false and
\* sends nothing; and a callback query never reaches a request that has been
\* resolved or has expired.
C13_UnknownShortIdIgnored ==
    [][IsCallback =>
           /\ last'.shortId \notin DOMAIN shortIdMap =>
                  (~last'.ret /\ last'.request = None)
           /\ \A id \in Settled : ~(last'.present /\ last'.id = id)]_vars

---------------------------------------------------------------------------
(* Properties of the short-id index *)

\* the cached requests whose id has the short id
CachedWithShortId(cache, shortId) ==
    { id \in DOMAIN cache : Slice(id, ShortIdLen) = shortId }

\* getFullApprovalId(shortId) after the step
FullIdAfter(shortId) ==
    IF shortId \in DOMAIN shortIdMap' THEN Some(shortIdMap'[shortId]) ELSE None

\* the step is a handleApprovalRequested call that accepts the request
IsAccepted == last'.op = "requested" /\ last'.present

\* C16: while two accepted requests with the same first 8 characters are both
\* outstanding, shortIdMap maps the short id to the one inserted later:
\* accepting a request maps its short id to it, the mapping then stays as it
\* is for as long as the same two requests are cached, and a callback query
\* resolves the request the short id maps to.
C16_LaterInsertedWins ==
    [][/\ IsAccepted =>
              FullIdAfter(Slice(last'.id, ShortIdLen)) = Some(last'.id)
       /\ \A shortId \in DOMAIN shortIdMap :
              (/\ ~IsAccepted
               /\ Cardinality(CachedWithShortId(requestCache, shortId)) = 2
               /\ CachedWithShortId(requestCache', shortId) =
                      CachedWithShortId(requestCache, shortId)) =>
                  FullIdAfter(shortId) = Some(shortIdMap[shortId])
       /\ (IsCallback /\ last'.request # None) =>
              last'.request[1].id = shortIdMap[last'.shortId]]_vars

---------------------------------------------------------------------------
(* Progress of the fan-out.  The event loop runs a timer that is due and the
   clock advances; nothing makes the Telegram API answer a sendMessage call. *)

SpecLive == Init /\ [][Next]_vars /\ WF_vars(TimerFires) /\ WF_vars(Tick)

\* the handleApprovalRequested invocations
TaskIds == 1 .. (MaxRequests + 2)

\* the invocation awaits the send to the approver at position idx
Awaits(tid, idx) == \E task \in tasks : task.tid = tid /\ task.idx = idx

\* C17: the sends of one request are independent of each other: once the
\* send to the first of several approvers is under way, the send to the
\* second approver is eventually attempted, also when the first send never
\* completes (unless the handler is stopped meanwhile).
C17_LaterSendAttempted ==
    \A tid \in TaskIds :
        (Awaits(tid, 1) /\ Len(Approvers) >= 2) ~> (Awaits(tid, 2) \/ ~started)

---------------------------------------------------------------------------
(* The callback codec: buildExecApprovalCallbackData and
   parseExecApprovalCallbackData.  Strings are sequences of characters (UTF-16
   code units); Wide stands for a character outside ASCII. *)

MaxIdLen == 9

MaxTokenLen == 7

CallbackDataBudget == 64

EXEC_APPROVAL_PREFIX == <<"e", "a">>

Wide == "w3"

\* sequences over an alphabet, up to a length
SeqsUpTo(alphabet, n) == UNION { [1 .. k -> alphabet] : k \in 0 .. n }

\* the approval ids handed to buildExecApprovalCallbackData: ASCII ids with
\* and without ':', and ids of wide characters
CodecIds == SeqsUpTo({"a", ":"}, MaxIdLen) \cup SeqsUpTo({Wide}, MaxIdLen)

\* the callback data handed to parseExecApprovalCallbackData: strings, and
\* null / undefined
CodecTokens == {None} \cup { Some(t) : t \in SeqsUpTo({"e", "a", ":", "o", "d"}, MaxTokenLen) }

\* bytes of a character in UTF-8: a code unit of the Basic Multilingual
\* Plane takes up to 3
Utf8Bytes(c) == IF c = Wide THEN 3 ELSE 1

RECURSIVE ByteLength(_)
ByteLength(s) == IF s = <<>> THEN 0 ELSE Utf8Bytes(Head(s)) + ByteLength(Tail(s))

\* s.startsWith(p)
StartsWith(s, p) == Len(s) >= Len(p) /\ SubSeq(s, 1, Len(p)) = p

\* s.split(":")
RECURSIVE Split(_)
Split(s) ==
    IF \A i \in DOMAIN s : s[i] # ":"
    THEN <<s>>
    ELSE LET i == CHOOSE j \in DOMAIN s : s[j] = ":" /\ \A k \in 1 .. (j - 1) : s[k] # ":"
         IN  <<SubSeq(s, 1, i - 1)>> \o Split(SubSeq(s, i + 1, Len(s)))

\* buildExecApprovalCallbackData without the slice of the approval id
buildExecApprovalCallbackDataFullId(approvalId, action) ==
    LET actionChar == IF action = "allow-once" THEN "o"
                      ELSE IF action = "allow-always" THEN "a" ELSE "d"
    IN  EXEC_APPROVAL_PREFIX \o <<":">> \o approvalId \o <<":">> \o <<actionChar>>

buildExecApprovalCallbackData(approvalId, action) ==
    LET shortId == Slice(approvalId, ShortIdLen)
        actionChar == IF action = "allow-once" THEN "o"
                      ELSE IF action = "allow-always" THEN "a" ELSE "d"
    IN  EXEC_APPROVAL_PREFIX \o <<":">> \o shortId \o <<":">> \o <<actionChar>>

\* parseExecApprovalCallbackData without the test of the short id
parseExecApprovalCallbackDataAnyShortId(data) ==
    IF data = None \/ data[1] = <<>> \/ ~StartsWith(data[1], EXEC_APPROVAL_PREFIX \o <<":">>)
    THEN None
    ELSE LET parts == Split(data[1])
         IN  IF Len(parts) # 3
             THEN None
             ELSE LET shortId == parts[2]
                      actionChar == parts[3]
                      action == IF actionChar = <<"o">> THEN Some("allow-once")
                                ELSE IF actionChar = <<"a">> THEN Some("allow-always")
                                ELSE IF actionChar = <<"d">> THEN Some("deny")
                                ELSE None
                  IN  IF action = None
                      THEN None
                      ELSE Some([shortId |-> shortId, action |-> action[1]])

\* the result is null (None) or { shortId, action }
parseExecApprovalCallbackData(data) ==
    IF data = None \/ data[1] = <<>> \/ ~StartsWith(data[1], EXEC_APPROVAL_PREFIX \o <<":">>)
    THEN None
    ELSE LET parts == Split(data[1])
         IN  IF Len(parts) # 3
             THEN None
             ELSE LET shortId == parts[2]
                      actionChar == parts[3]
                      action == IF actionChar = <<"o">> THEN Some("allow-once")
                                ELSE IF actionChar = <<"a">> THEN Some("allow-always")
                                ELSE IF actionChar = <<"d">> THEN Some("deny")
                                ELSE None
                  IN  IF action = None \/ shortId = <<>>
                      THEN None
                      ELSE Some([shortId |-> shortId, action |-> action[1]])

\* isExecApprovalCallbackData with the prefix tested without its colon
isExecApprovalCallbackDataBarePrefix(data) ==
    IF data = None THEN FALSE ELSE StartsWith(data[1], EXEC_APPROVAL_PREFIX)

\* data?.startsWith("ea:") ?? false
isExecApprovalCallbackData(data) ==
    IF data = None THEN FALSE ELSE StartsWith(data[1], EXEC_APPROVAL_PREFIX \o <<":">>)

\* the arguments of a call that is about to be made
CodecInputs ==
    { [op |-> "buildInput", id |-> id, action |-> d] : id \in CodecIds, d \in Decisions }
        \cup { [op |-> "parseInput", data |-> t] : t \in CodecTokens }

InitCodec ==
    /\ config = Cfg(FALSE, Absent, Absent, Absent)
    /\ started = FALSE
    /\ gatewayClient = FALSE
    /\ clients = 0
    /\ pending = EmptyMap
    /\ requestCache = EmptyMap
    /\ shortIdMap = EmptyMap
    /\ tasks = {}
    /\ timers = {}
    /\ nextTask = 1
    /\ nextMessageId = 1
    /\ nextHandle = 1
    /\ now = 0
    /\ edits = <<>>
    /\ sent = {}
    /\ removed = {}
    /\ resolvedDelivered = {}
    /\ last \in CodecInputs
    /\ LoggerLoaded(DefaultLogSettings, EmptyMap)

\* the module state the codec leaves alone
HandlerState ==
    <<config, started, gatewayClient, clients, pending, requestCache, shortIdMap, tasks,
      timers, nextTask, nextMessageId, nextHandle, now, edits, sent, removed,
      resolvedDelivered>>

BuildCallbackData ==
    /\ last.op = "buildInput"
    /\ last' = [op |-> "build", id |-> last.id, action |-> last.action,
                data |-> buildExecApprovalCallbackData(last.id, last.action)]
    /\ UNCHANGED <<HandlerState, LoggerState>>

\* the token of a button comes back in a callback query and is parsed
ParseBuiltCallbackData ==
    /\ last.op = "build"
    /\ last' = [op |-> "roundtrip", id |-> last.id, action |-> last.action,
                data |-> last.data,
                result |-> parseExecApprovalCallbackData(Some(last.data))]
    /\ UNCHANGED <<HandlerState, LoggerState>>

ParseCallbackData ==
    /\ last.op = "parseInput"
    /\ last' = [op |-> "parse", data |-> last.data,
                result |-> parseExecApprovalCallbackData(last.data)]
    /\ UNCHANGED <<HandlerState, LoggerState>>

\* the bot's callback handler routes a token: is it an exec approval token,
\* and what does it parse to
RecognizeCallbackData ==
    /\ last.op = "parseInput"
    /\ last' = [op |-> "recognize", data |-> last.data,
                recognized |-> isExecApprovalCallbackData(last.data),
                result |-> parseExecApprovalCallbackData(last.data)]
    /\ UNCHANGED <<HandlerState, LoggerState>>

NextCodec ==
    \/ BuildCallbackData
    \/ ParseBuiltCallbackData
    \/ ParseCallbackData
    \/ RecognizeCallbackData

SpecCodec == InitCodec /\ [][NextCodec]_vars

\* the tag character of a decision
Tag(decision) ==
    CASE decision = "allow-once" -> "o"
      [] decision = "allow-always" -> "a"
      [] decision = "deny" -> "d"

\* C18: for every decision and every id of length >= 1 (whatever its
\* characters, ':' included), parsing the built token gives the first 8
\* characters of the id (the whole id if shorter) and the decision.
C18_RoundTrip ==
    (last.op = "roundtrip" /\ Len(last.id) >= 1) =>
        last.result = Some([shortId |-> SubSeq(last.id, 1, Min(8, Len(last.id))),
                            action |-> last.action])

\* the token is "ea:", a non-empty short id without ':', ':' and one tag
WellFormed(token) ==
    \E n \in 1 .. (Len(token) - 5) :
        /\ Len(token) = n + 5
        /\ SubSeq(token, 1, 3) = <<"e", "a", ":">>
        /\ \A i \in 4 .. (n + 3) : token[i] # ":"
        /\ token[n + 4] = ":"
        /\ token[n + 5] \in {"o", "a", "d"}

\* C19: parseExecApprovalCallbackData returns a result exactly for a token
\* that starts with "ea:", has exactly 3 colon-delimited fields, a non-empty
\* second field and a third field that is o, a or d, and then the result is
\* that short id with the decision of the tag; for anything else (null and
\* the empty string included) it returns null.
C19_ParseExactlyWellFormed ==
    last.op = "parse" =>
        IF last.data # None /\ WellFormed(last.data[1])
        THEN LET token == last.data[1]
             IN  /\ last.result # None
                 /\ last.result[1].shortId = SubSeq(token, 4, Len(token) - 2)
                 /\ Tag(last.result[1].action) = token[Len(token)]
        ELSE last.result = None

\* a well-formed token has been parsed
C19_Witness ==
    /\ last.op = "parse"
    /\ last.data = Some(<<"e", "a", ":", "d", "e", ":", "a">>)
    /\ last.result = Some([shortId |-> <<"d", "e">>, action |-> "allow-always"])

\* C20: for every id and decision the built token is "ea:", the first 8
\* characters of the id, ':' and the tag of the decision; it has at most 13
\* characters and fits the 64 bytes of callback_data.
C20_TokenWithinBudget ==
    last.op = "build" =>
        /\ last.data = <<"e", "a", ":">> \o SubSeq(last.id, 1, Min(8, Len(last.id)))
                           \o <<":", Tag(last.action)>>
        /\ Len(last.data) <= 13
        /\ ByteLength(last.data) <= CallbackDataBudget

\* a token has been built for an id of more than 8 characters, some of them
\* outside ASCII
C20_Witness ==
    /\ last.op = "build"
    /\ Len(last.id) > 8
    /\ \A i \in 1 .. 8 : last.id[i] = Wide
    /\ Len(last.data) = 13

\* C21: isExecApprovalCallbackData is true exactly for a string that starts
\* with "ea:"; it is false for the empty string, null and undefined; every
\* token that parseExecApprovalCallbackData accepts is recognized.
C21_RecognizedIffPrefix ==
    last.op = "recognize" =>
        /\ last.recognized <=>
               /\ last.data # None
               /\ Len(last.data[1]) >= 3
               /\ last.data[1][1] = "e"
               /\ last.data[1][2] = "a"
               /\ last.data[1][3] = ":"
        /\ last.result # None => last.recognized

\* a token with the prefix that does not parse has been recognized
C21_Witness ==
    /\ last.op = "recognize"
    /\ last.data = Some(<<"e", "a", ":">>)
    /\ last.recognized
    /\ last.result = None

---------------------------------------------------------------------------
(* The filter of shouldHandle as a function of the configuration and the
   request: a handler is constructed with one configuration and asked about
   one request *)

MaxPatternLen == 3

MaxSessionLen == 3

\* session filter patterns: literals and the regular expression characters
\* . * ^ $ ( in every arrangement
FilterPatterns == SeqsUpTo({"a", "t", ".", "*", "^", "$", "("}, MaxPatternLen)

\* request.sessionKey: missing, empty, or made of literals and a parenthesis
FilterSessions == {None} \cup {Some(k) : k \in SeqsUpTo({"a", "t", "("}, MaxSessionLen)}

\* request.agentId: missing, empty, listed, a prefix of a listed one, listed second
FilterAgentIds == {None, Some(""), Some("main"), Some("mai"), Some("ops")}

FilterApprovers == {Absent, List(<<>>), List(<<[num |-> 101]>>)}

AgentFilters == {Absent, List(<<>>), List(<<"main">>), List(<<"main", "ops">>)}

SessionFilters ==
    { Absent,
      List(<<>>),
      List(<< <<"t">> >>),
      List(<< <<"(">>, <<"^", "a", ".", "*", "t">> >>),
      List(<< <<"a", "(">>, <<"t", "$">> >>) }

\* every combination of the four configuration fields
GateConfigs ==
    { Cfg(en, ap, af, sf) :
        en \in BOOLEAN, ap \in FilterApprovers, af \in AgentFilters, sf \in SessionFilters }

\* an enabled configuration whose session filter is one pattern
PatternConfigs ==
    { Cfg(TRUE, List(<<[num |-> 101]>>), Absent, List(<<p>>)) : p \in FilterPatterns }

\* a handler is constructed with a configuration and asked about a request
FilterInput(c, a, k) ==
    [op |-> "filterInput", cfg |-> c, request |-> Request(IdC, a, k, 0)]

InitFilter ==
    /\ \/ \E c \in GateConfigs, a \in FilterAgentIds, k \in FilterSessions :
              last = FilterInput(c, a, k)
       \/ \E c \in PatternConfigs, k \in FilterSessions :
              last = FilterInput(c, Some("main"), k)
    /\ config = last.cfg
    /\ started = FALSE
    /\ gatewayClient = FALSE
    /\ clients = 0
    /\ pending = EmptyMap
    /\ requestCache = EmptyMap
    /\ shortIdMap = EmptyMap
    /\ tasks = {}
    /\ timers = {}
    /\ nextTask = 1
    /\ nextMessageId = 1
    /\ nextHandle = 1
    /\ now = 0
    /\ edits = <<>>
    /\ sent = {}
    /\ removed = {}
    /\ resolvedDelivered = {}
    /\ LoggerLoaded(DefaultLogSettings, EmptyMap)

\* handler.shouldHandle(request)
ShouldHandle ==
    /\ last.op = "filterInput"
    /\ last' = [op |-> "shouldHandle", request |-> last.request,
                result |-> shouldHandle(config, last.request)]
    /\ UNCHANGED <<HandlerState, LoggerState>>

NextFilter == ShouldHandle

SpecFilter == InitFilter /\ [][NextFilter]_vars

\* C22: shouldHandle returns false whenever enabled is false, whatever the
\* other fields and the request are; false whenever approvers is empty or
\* absent; true for every request when the configuration is enabled, has an
\* approver and has no agent or session filter.
C22_GateOnEnabledAndApprovers ==
    last.op = "shouldHandle" =>
        /\ ~config.enabled => ~last.result
        /\ (~config.approvers.present \/ config.approvers.list = <<>>) => ~last.result
        /\ ( /\ config.enabled
             /\ config.approvers.present
             /\ Len(config.approvers.list) >= 1
             /\ ~config.agentFilter.present
             /\ ~config.sessionFilter.present ) => last.result

\* the minimal configuration has accepted a request that names neither an
\* agent nor a session
C22_Witness ==
    /\ last.op = "shouldHandle"
    /\ config = Cfg(TRUE, List(<<[num |-> 101]>>), Absent, Absent)
    /\ last.request.agentId = None
    /\ last.request.sessionKey = None
    /\ last.result

\* the request's agent id is a member of the configured agent filter
AgentListed ==
    /\ last.request.agentId # None
    /\ \E i \in 1 .. Len(config.agentFilter.list) :
          config.agentFilter.list[i] = last.request.agentId[1]

\* C23 as stated: when agentFilter is present, shouldHandle returns false
\* unless the request carries a non-null agentId that is exactly equal to a
\* member of the list; a request with a null or missing agentId is always
\* rejected.
C23_AgentFilterPresent ==
    (last.op = "shouldHandle" /\ config.agentFilter.present) =>
        /\ last.result => AgentListed
        /\ last.request.agentId = None => ~last.result

\* C23 amended: when agentFilter is present and has at least one entry,
\* shouldHandle returns false unless the request carries a non-null agentId
\* that is exactly equal to a member of the list, and a request with a null
\* or missing agentId is always rejected; an empty agentFilter filters
\* nothing.
C23_AgentFilterWithEntries ==
    last.op = "shouldHandle" =>
        /\ (config.agentFilter.present /\ Len(config.agentFilter.list) >= 1) =>
              /\ last.result => AgentListed
              /\ last.request.agentId = None => ~last.result
        /\ ( /\ config.agentFilter.present
             /\ config.agentFilter.list = <<>>
             /\ config.enabled
             /\ Len(config.approvers.list) >= 1
             /\ ~config.sessionFilter.present ) => last.result

\* a request of the second listed agent has been accepted
C23_Witness ==
    /\ last.op = "shouldHandle"
    /\ config.agentFilter = List(<<"main", "ops">>)
    /\ last.request.agentId = Some("ops")
    /\ last.result

\* the session key k matches the pattern p: it contains p, or p is a valid
\* regular expression that k satisfies
PatternAccepts(p, k) == Includes(k, p) \/ (~RegExpThrows(p) /\ RegExpTest(p, k))

\* the request's session key matches at least one configured pattern
SessionListed ==
    /\ last.request.sessionKey # None
    /\ \E i \in 1 .. Len(config.sessionFilter.list) :
          PatternAccepts(config.sessionFilter.list[i], last.request.sessionKey[1])

\* the request's session key contains a configured pattern that is not a valid
\* regular expression
ContainsInvalidPattern ==
    /\ last.request.sessionKey # None
    /\ \E i \in 1 .. Len(config.sessionFilter.list) :
          /\ RegExpThrows(config.sessionFilter.list[i])
          /\ Includes(last.request.sessionKey[1], config.sessionFilter.list[i])

\* the tests before the session filter let the request through
PassesBeforeSessionFilter ==
    /\ config.enabled
    /\ config.approvers.present
    /\ Len(config.approvers.list) >= 1
    /\ (config.agentFilter.present /\ Len(config.agentFilter.list) >= 1) => AgentListed
    /\ last.request.agentId # Some("")

\* C24 as stated: when sessionFilter is present, shouldHandle returns false
\* unless the request carries a non-null sessionKey that matches at least one
\* pattern, by substring or as a regular expression; a pattern that is not a
\* valid regular expression is matched by substring only and neither throws
\* nor rejects a request that contains it.
C24_SessionFilterPresent ==
    (last.op = "shouldHandle" /\ config.sessionFilter.present) =>
        /\ last.result => SessionListed
        /\ (PassesBeforeSessionFilter /\ ContainsInvalidPattern) => last.result

\* C24 amended: when sessionFilter is present and has at least one pattern,
\* shouldHandle returns false unless the request carries a non-null sessionKey
\* that matches at least one pattern, by substring or as a regular expression;
\* a pattern that is not a valid regular expression is matched by substring
\* only and neither throws nor rejects a request that contains it; an empty
\* sessionFilter filters nothing.
C24_SessionFilterWithEntries ==
    last.op = "shouldHandle" =>
        /\ (config.sessionFilter.present /\ Len(config.sessionFilter.list) >= 1) =>
              /\ last.result => SessionListed
              /\ (PassesBeforeSessionFilter /\ ContainsInvalidPattern) => last.result
        /\ ( /\ config.sessionFilter.present
             /\ config.sessionFilter.list = <<>>
             /\ PassesBeforeSessionFilter ) => last.result

\* a session key that contains the invalid pattern "a(" has been accepted
C24_Witness ==
    /\ last.op = "shouldHandle"
    /\ config.sessionFilter = List(<< <<"a", "(">> >>)
    /\ last.request.sessionKey = Some(<<"t", "a", "(">>)
    /\ last.result

\* the agent dimension lets the request pass: no agent filter is configured,
\* or the request names a listed agent
AgentDimensionPasses ==
    \/ ~(config.agentFilter.present /\ Len(config.agentFilter.list) >= 1)
    \/ (AgentListed /\ last.request.agentId # Some(""))

\* the session dimension lets the request pass: no session filter is
\* configured, or the request has a session key that matches a pattern
SessionDimensionPasses ==
    \/ ~(config.sessionFilter.present /\ Len(config.sessionFilter.list) >= 1)
    \/ (SessionListed /\ last.request.sessionKey # Some(<<>>))

---------------------------------------------------------------------------
(* logger.ts: the file transport with size-based rotation, and the error
   spike alerting *)

MaxRotations == 2

MaxLogTime == 4

MaxErrors == 3

MaxResets == 1

MaxLogBytes == 8

\* the clock advances in steps of half a second
TickMs == 500

\* settings.file: a base name and an extension
LogFile == <<"t", ".", "l">>

\* Buffer.byteLength(line, "utf8") + 1 of the lines written
LineSizes == {1, 2, 4}

\* logObj._meta.logLevelName, in lower case
LogLevels == {"info", "error"}

\* cfg.alertOnErrorSpike
AlertConfigs ==
    {None} \cup
    { Some([enabled |-> e, threshold |-> t, windowSeconds |-> 1, cooldownSeconds |-> 1]) :
        e \in BOOLEAN, t \in {1, 2} }

\* the configurations resolveSettings() may read: small files, rotated, with
\* no alerting
RotationSettings ==
    { [maxFileSize |-> m, maxFilesPerDay |-> n, alertOnErrorSpike |-> None] :
        m \in {2, 3}, n \in 0 .. MaxRotations }

\* the configurations resolveSettings() may read: the default rotation, with
\* and without alerting
AlertSettings ==
    { [maxFileSize |-> DEFAULT_MAX_FILE_SIZE, maxFilesPerDay |-> DEFAULT_MAX_FILES_PER_DAY,
       alertOnErrorSpike |-> a] : a \in AlertConfigs }

\* the log directory when the module is loaded: empty, or with the base file
\* an earlier process wrote
InitialDirectories == {EmptyMap, MapSet(EmptyMap, LogFile, 1)}

\* s.endsWith(p)
EndsWith(s, p) == Len(s) >= Len(p) /\ SubSeq(s, Len(s) - Len(p) + 1, Len(s)) = p

\* the position of the last "." of a file name that has one after its first character
LastDot(f) == CHOOSE i \in 2 .. Len(f) : f[i] = "." /\ \A j \in (i + 1) .. Len(f) : f[j] # "."

\* path.extname(basePath)
ExtName(f) ==
    IF \E i \in 2 .. Len(f) : f[i] = "." THEN SubSeq(f, LastDot(f), Len(f)) ELSE <<>>

\* path.basename(basePath, ext)
BaseName(f) == SubSeq(f, 1, Len(f) - Len(ExtName(f)))

\* `${base}.${index}${ext}`
getRotatedPath(basePath, index) ==
    BaseName(basePath) \o <<".", ToString(index)>> \o ExtName(basePath)

\* the entries of the directory that start with `${base}.` and end with ext
countRotationFiles(basePath) ==
    Cardinality({ entry \in DOMAIN files :
                    /\ StartsWith(entry, BaseName(basePath) \o <<".">>)
                    /\ EndsWith(entry, ExtName(basePath)) })

\* fs.statSync(filePath).size, 0 if the file does not exist
getFileSize(filePath) == IF filePath \in DOMAIN files THEN files[filePath] ELSE 0

\* a variant of the rotation test that rotates a file that has exceeded the limit
ShouldRotateAfterExceeding(file, size, index, lineBytes) ==
    /\ file # None
    /\ size > logSettings.maxFileSize
    /\ index < logSettings.maxFilesPerDay

\* the rotation test of the transport
ShouldRotate(file, size, index, lineBytes) ==
    /\ file # None
    /\ size + lineBytes > logSettings.maxFileSize
    /\ index < logSettings.maxFilesPerDay

\* a variant of the drop test that never drops
LogIsFullNever(index, size) == FALSE

\* the drop test of the transport: the log is full for today
LogIsFull(index, size) ==
    /\ index >= logSettings.maxFilesPerDay
    /\ size > logSettings.maxFileSize

\* a variant of the pruning that keeps every timestamp
ShiftNone(timestamps, cutoff) == timestamps

RECURSIVE ShiftBefore(_, _)
\* while (errorTimestamps.length > 0 && errorTimestamps[0] < cutoff) shift()
ShiftBefore(timestamps, cutoff) ==
    IF timestamps # <<>> /\ timestamps[1] < cutoff
    THEN ShiftBefore(Tail(timestamps), cutoff)
    ELSE timestamps

\* a variant of the cooldown test that always passes
CooldownIgnored(nowMs, lastAt, cooldownMs) == TRUE

\* now - lastAlertSentAt > cooldownMs
CooldownPassed(nowMs, lastAt, cooldownMs) == nowMs - lastAt > cooldownMs

\* trackErrorAndCheckAlert(): the timestamps and the time of the last alert it
\* leaves, whether it recorded the error, and what it returns
trackErrorAndCheckAlert ==
    IF alertConfig = None \/ ~alertConfig[1].enabled
    THEN [errorTimestamps |-> errorTimestamps, lastAlertSentAt |-> lastAlertSentAt,
          recorded |-> FALSE, alert |-> FALSE]
    ELSE LET threshold == alertConfig[1].threshold
             windowMs == alertConfig[1].windowSeconds * 1000
             cooldownMs == alertConfig[1].cooldownSeconds * 1000
             kept == ShiftBefore(Append(errorTimestamps, clock), clock - windowMs)
             alert == /\ Len(kept) >= threshold
                      /\ CooldownPassed(clock, lastAlertSentAt, cooldownMs)
         IN  [errorTimestamps |-> kept,
              lastAlertSentAt |-> IF alert THEN clock ELSE lastAlertSentAt,
              recorded |-> TRUE, alert |-> alert]

\* what the transport did with a line
LogCall(level, lineBytes, appended, alert) ==
    [op |-> "log", level |-> level, lineBytes |-> lineBytes, appended |-> appended,
     alert |-> alert]

\* the transport buildLogger attaches, called with a log entry of a level
\* and a size
Transport(level, lineBytes) ==
    LET rotate == ShouldRotate(currentLogFile, currentFileSize, currentRotationIndex, lineBytes)
        index == IF rotate THEN currentRotationIndex + 1 ELSE currentRotationIndex
        file == IF rotate THEN Some(getRotatedPath(LogFile, index)) ELSE currentLogFile
        size == IF rotate THEN 0 ELSE currentFileSize
        tracked == trackErrorAndCheckAlert
    IN  /\ currentRotationIndex' = index
        /\ currentLogFile' = file
        /\ IF LogIsFull(index, size)
           THEN /\ currentFileSize' = size
                /\ last' = LogCall(level, lineBytes, FALSE, FALSE)
                /\ UNCHANGED <<files, errorTimestamps, lastAlertSentAt, errors, alerts>>
           ELSE /\ IF file # None
                   THEN /\ files' = MapSet(files, file[1], getFileSize(file[1]) + lineBytes)
                        /\ currentFileSize' = size + lineBytes
                   ELSE /\ UNCHANGED files
                        /\ currentFileSize' = size
                /\ IF level \in {"error", "fatal"}
                   THEN /\ errorTimestamps' = tracked.errorTimestamps
                        /\ lastAlertSentAt' = tracked.lastAlertSentAt
                        /\ errors' = IF tracked.recorded THEN Append(errors, clock) ELSE errors
                        /\ alerts' = IF tracked.alert
                                     THEN Append(alerts, [at |-> clock, resets |-> resets])
                                     ELSE alerts
                        /\ last' = LogCall(level, lineBytes, file # None, tracked.alert)
                   ELSE /\ last' = LogCall(level, lineBytes, file # None, FALSE)
                        /\ UNCHANGED <<errorTimestamps, lastAlertSentAt, errors, alerts>>
        /\ UNCHANGED <<logSettings, cachedLogger, alertConfig, clock, resets>>

\* getLogger(): resolveSettings() sets alertConfig, and buildLogger runs when
\* no logger is cached
GetLogger ==
    /\ alertConfig' = logSettings.alertOnErrorSpike
    /\ IF cachedLogger
       THEN UNCHANGED <<cachedLogger, currentLogFile, currentFileSize, currentRotationIndex>>
       ELSE /\ cachedLogger' = TRUE
            /\ currentLogFile' = Some(LogFile)
            /\ currentFileSize' = getFileSize(LogFile)
            /\ currentRotationIndex' = countRotationFiles(LogFile)
    /\ last' = NoCall
    /\ UNCHANGED <<logSettings, errorTimestamps, lastAlertSentAt, files, clock, resets,
                   errors, alerts>>
    /\ UNCHANGED HandlerState

\* a log entry at or above the configured level reaches the transport of the
\* cached logger
LogLines(levels, sizes) ==
    \E level \in levels, lineBytes \in sizes :
        /\ cachedLogger
        /\ Len(errors) < MaxErrors
        /\ Transport(level, lineBytes)
        /\ UNCHANGED HandlerState

\* entries of every size
Log == LogLines(LogLevels, LineSizes)

\* entries of one size, while the file is short
LogEntry == currentFileSize < MaxLogBytes /\ LogLines(LogLevels, {2})

ResetLogger ==
    /\ resets < MaxResets
    /\ resets' = resets + 1
    /\ cachedLogger' = FALSE
    /\ currentLogFile' = None
    /\ currentFileSize' = 0
    /\ currentRotationIndex' = 0
    /\ errorTimestamps' = <<>>
    /\ lastAlertSentAt' = 0
    /\ last' = NoCall
    /\ UNCHANGED <<logSettings, alertConfig, files, clock, errors, alerts>>
    /\ UNCHANGED HandlerState

\* time passes
LoggerTick ==
    /\ clock < StartTime + MaxLogTime * TickMs
    /\ clock' = clock + TickMs
    /\ last' = NoCall
    /\ UNCHANGED <<logSettings, cachedLogger, alertConfig, currentLogFile, currentFileSize,
                   currentRotationIndex, errorTimestamps, lastAlertSentAt, files, resets,
                   errors, alerts>>
    /\ UNCHANGED HandlerState

\* the handler is constructed and left alone
HandlerIdle ==
    /\ config = Cfg(FALSE, Absent, Absent, Absent)
    /\ started = FALSE
    /\ gatewayClient = FALSE
    /\ clients = 0
    /\ pending = EmptyMap
    /\ requestCache = EmptyMap
    /\ shortIdMap = EmptyMap
    /\ tasks = {}
    /\ timers = {}
    /\ nextTask = 1
    /\ nextMessageId = 1
    /\ nextHandle = 1
    /\ now = 0
    /\ edits = <<>>
    /\ sent = {}
    /\ removed = {}
    /\ resolvedDelivered = {}
    /\ last = NoCall

InitRotation ==
    /\ HandlerIdle
    /\ \E settings \in RotationSettings, directory \in InitialDirectories :
          LoggerLoaded(settings, directory)

NextRotation ==
    \/ GetLogger
    \/ Log
    \/ ResetLogger

SpecRotation == InitRotation /\ [][NextRotation]_vars

InitAlert ==
    /\ HandlerIdle
    /\ \E settings \in AlertSettings : LoggerLoaded(settings, EmptyMap)

NextAlert ==
    \/ GetLogger
    \/ LogEntry
    \/ ResetLogger
    \/ LoggerTick

SpecAlert == InitAlert /\ [][NextAlert]_vars

---------------------------------------------------------------------------
(* Properties of the file transport *)

\* the rotated files of the directory
RotatedFiles == DOMAIN files \ {LogFile}

RECURSIVE TotalBytes(_, _)
\* the bytes the files of a set hold in a directory
TotalBytes(directory, names) ==
    IF names = {} THEN 0
    ELSE LET name == CHOOSE n \in names : TRUE
         IN  directory[name] + TotalBytes(directory, names \ {name})

\* the step is a call of the transport with a line that does not fit into
\* the current file
LineWouldExceed ==
    /\ last'.op = "log"
    /\ currentLogFile # None
    /\ currentFileSize + last'.lineBytes > logSettings.maxFileSize

\* the step switches to the next numbered file and writes the line there
SwitchesToNextFile ==
    LET next == getRotatedPath(LogFile, currentRotationIndex + 1)
    IN  /\ currentRotationIndex' = currentRotationIndex + 1
        /\ currentLogFile' = Some(next)
        /\ currentFileSize' = last'.lineBytes
        /\ next \notin DOMAIN files
        /\ files' = MapSet(files, next, last'.lineBytes)

\* C26: when appending a line would make the current log file exceed
\* maxFileSize and fewer than maxFilesPerDay rotations have been used, the
\* transport switches to the next numbered file (rotation index + 1, size
\* counter 0) and writes the line there; so when rotation is configured and
\* the base file has been written to, more than maxFileSize bytes of log are
\* in more than one file.
C26_RotatesWhileRotationsLeft ==
    /\ [][(LineWouldExceed /\ Cardinality(RotatedFiles) < logSettings.maxFilesPerDay)
            => SwitchesToNextFile]_vars
    /\ []((/\ logSettings.maxFilesPerDay >= 1
           /\ LogFile \in DOMAIN files
           /\ TotalBytes(files, DOMAIN files) > logSettings.maxFileSize)
            => Cardinality(DOMAIN files) > 1)

C28_FilesAndIndexBounded ==
    /\ \A name \in DOMAIN files : files[name] <= logSettings.maxFileSize
    /\ currentRotationIndex <= logSettings.maxFilesPerDay

---------------------------------------------------------------------------
(* Properties of the error spike alerting *)

\* the errors recorded within the last windowSeconds, the one just logged included
ErrorsInWindow ==
    Cardinality({ i \in 1 .. Len(errors) :
                    errors[i] >= clock - alertConfig[1].windowSeconds * 1000 })

FarApart(i, j) ==
    alerts[j].at - alerts[i].at > logSettings.alertOnErrorSpike[1].cooldownSeconds * 1000

\* C30 as stated: any two alerts signalled by trackErrorAndCheckAlert are more
\* than cooldownSeconds apart, however many errors are logged in between.
C30_AlertsApart ==
    \A i, j \in 1 .. Len(alerts) : i < j => FarApart(i, j)

\* C30 amended: any two alerts signalled by trackErrorAndCheckAlert with no
\* reset of the logger state between them are more than cooldownSeconds
\* apart, however many errors are logged in between.
C30_AlertsApartBetweenResets ==
    \A i, j \in 1 .. Len(alerts) :
        (i < j /\ alerts[i].resets = alerts[j].resets) => FarApart(i, j)

\* a second alert has been signalled with no reset since the first, and an
\* error logged in between has signalled none
C30_Witness ==
    /\ Len(alerts) = 2
    /\ alerts[1].resets = alerts[2].resets
    /\ Len(errors) = 3
    /\ errors[2] < alerts[2].at
    /\ last.op = "log"
    /\ last.alert

---------------------------------------------------------------------------
(* Properties of the gateway client's life cycle and of the registry *)

\* C31: resolveApproval returns true exactly when the handler has a gateway
\* client and the exec.approval.resolve request completes without error.
\* Without a gateway client (never started, started while disabled or
\* without approvers, stopped) it returns false and sends nothing; with one it
\* sends the request for the id and the decision it was given and returns
\* false when the request fails.  The call changes nothing of the handler.
C31_ResolveApprovalResult ==
    [][last'.op = "resolve" =>
          /\ \A approvalId \in Ids, decision \in Decisions, reply \in Replies :
                LET outcome == resolveApproval(approvalId, decision, reply)
                IN  /\ outcome.ret <=> (gatewayClient /\ reply = "ok")
                    /\ IF gatewayClient
                       THEN outcome.request = Some([id |-> approvalId, decision |-> decision])
                       ELSE outcome.request = None
          /\ last'.ret => gatewayClient
          /\ (last'.request = None) <=> ~gatewayClient
          /\ last'.request # None => last'.request[1].id = last'.id
          /\ UNCHANGED HandlerState]_vars

\* resolveApproval was called on a handler that was started with a
\* configuration that creates no gateway client
C31_Witness ==
    /\ last.op = "resolve"
    /\ started
    /\ ~gatewayClient
    /\ ~(config.enabled /\ NonEmpty(config.approvers))
    /\ ~last.ret
    /\ last.request = None

\* C32: every request id that has a pending entry also has its request in
\* requestCache, so a resolved event or a timer that removes a pending entry
\* always finds the cached request and issues a message update.
C32_PendingIsCached ==
    [][/\ \A id \in DOMAIN pending' : id \in DOMAIN requestCache'
       /\ \A id \in DOMAIN pending :
             (TerminalCall(id) /\ last'.present) =>
                 (id \in DOMAIN requestCache /\ NewEdits # {})]_vars

\* C33: a resolved event or a timer that removes the pending entry of one
\* request removes no short-id mapping whose value is a different request:
\* every other request that is still pending and was reachable through
\* shortIdMap before the step is reachable through it after the step, also
\* when the two ids share their first 8 characters.
C33_OtherMappingsKept ==
    [][\A a \in DOMAIN pending :
          (TerminalCall(a) /\ last'.present) =>
              \A s \in DOMAIN shortIdMap :
                  (shortIdMap[s] # a /\ shortIdMap[s] \in DOMAIN pending') =>
                      (s \in DOMAIN shortIdMap' /\ shortIdMap'[s] = shortIdMap[s])]_vars

---------------------------------------------------------------------------
(* Release of the registry without stop().  The handler runs from start()
   on; every awaited api.sendMessage settles, by resolving with or without a
   message or by rejecting, a timer that is due runs and the clock advances. *)

\* the started handler and its event sources, stop() never called
NextRunning ==
    \/ Start
    \/ GatewayRequested
    \/ GatewayResolved
    \/ SendOk
    \/ SendNoId
    \/ SendThrows
    \/ TimerFires
    \/ Tick

SpecRunning ==
    /\ Init
    /\ [][NextRunning]_vars
    /\ WF_vars(SendOk \/ SendNoId \/ SendThrows)
    /\ WF_vars(TimerFires)
    /\ WF_vars(Tick)

\* nothing of the request is left in pending, requestCache or shortIdMap
Released(id) ==
    /\ id \notin DOMAIN pending
    /\ id \notin DOMAIN requestCache
    /\ \A s \in DOMAIN shortIdMap : shortIdMap[s] # id

\* C34: every request that passed shouldHandle is eventually absent from
\* pending, requestCache and shortIdMap without stop() being called, given
\* that every send attempt completes and every armed timer fires; also when
\* every send attempt fails.
C34_EventuallyReleased ==
    \A id \in Ids : (id \in DOMAIN requestCache) ~> Released(id)

\* C35: start() on a started handler and stop() on a handler that is not
\* started change nothing, so at most one gateway client exists at any time
\* and it is the one this.gatewayClient refers to; start() creates no gateway
\* client when the configuration is disabled or has no approvers, and after
\* stop() the reference is null and no client is left running.
C35_StartStopIdempotent ==
    [][/\ (Start /\ started) => UNCHANGED HandlerState
       /\ (Stop /\ ~started) => UNCHANGED HandlerState
       /\ clients' <= 1
       /\ gatewayClient' <=> (clients' = 1)
       /\ (Start /\ ~(config.enabled /\ NonEmpty(config.approvers))) =>
             (~gatewayClient' /\ clients' = clients)
       /\ Stop => (~started' /\ ~gatewayClient' /\ clients' = 0)]_vars

\* a handler that had a gateway client, accepted a request through it and
\* was stopped
C35_Witness ==
    /\ ~started
    /\ ~gatewayClient
    /\ clients = 0
    /\ nextTask > 1
    /\ config.enabled
    /\ NonEmpty(config.approvers)

---------------------------------------------------------------------------
(* Filters without entries *)

\* C36: an agentFilter or a sessionFilter that is present but empty imposes
\* no restriction: for every request shouldHandle returns what it returns
\* for the configuration that differs only in that filter being absent.
C36_EmptyFilterIsAbsent ==
    last.op = "shouldHandle" =>
        /\ config.agentFilter = List(<<>>) =>
              last.result = shouldHandle([config EXCEPT !.agentFilter = Absent], last.request)
        /\ config.sessionFilter = List(<<>>) =>
              last.result = shouldHandle([config EXCEPT !.sessionFilter = Absent], last.request)

\* both filters are present and empty, and a request without agent id and
\* session key is accepted
C36_Witness ==
    /\ last.op = "shouldHandle"
    /\ config = Cfg(TRUE, List(<<[num |-> 101]>>), List(<<>>), List(<<>>))
    /\ last.request.agentId = None
    /\ last.request.sessionKey = None
    /\ last.result
====
